---- MODULE Spec2Model ----
(***************************************************************************)
(* The scalar animation engine of style/src/animation.rs: AnimatedValue,   *)
(* its transition / tick / timed_progress methods and the Timing curves.   *)
(*                                                                         *)
(* f32 values are modelled in sign-magnitude form, as IEEE-754 stores      *)
(* them: a class (finite, infinite, NaN), a sign bit and a magnitude.  The *)
(* magnitude of a finite value counts units of 1/Unit; every operation     *)
(* rounds its exact result to the nearest unit.  Unit is a multiple of     *)
(* every duration the model draws, so the arithmetic of tick is exact on   *)
(* the inputs of the model, and rounding enters only where the code        *)
(* divides by a range or evaluates a timing curve.  Signed zeros, the      *)
(* infinities and NaN are kept because tick branches on the sign bit of    *)
(* position_delta and divides by duration_ms, which may be 0.0.            *)
(***************************************************************************)
EXTENDS Integers, Sequences, FiniteSets, TLC

\* ------------------------------------------------------------------ bounds
\* Timestamps handed to transition and tick range over 0..MaxTime.
MaxTime == 2
\* Initial positions and transition targets range over 0..MaxTarget.
MaxTarget == 1
\* duration_ms ranges over 0..MaxDuration.
MaxDuration == 2
\* Fractional bits kept by the model of f32.
FracBits == 4

Times == 0..MaxTime
Targets == 0..MaxTarget
Durations == 0..MaxDuration

RECURSIVE Gcd(_, _)
Gcd(a, b) == IF b = 0 THEN a ELSE Gcd(b, a % b)

RECURSIVE LcmUpTo(_)
LcmUpTo(n) == IF n <= 1 THEN 1 ELSE LET l == LcmUpTo(n - 1) IN (l * n) \div Gcd(l, n)

RECURSIVE Pow2(_)
Pow2(n) == IF n = 0 THEN 1 ELSE 2 * Pow2(n - 1)

\* The number of model units in 1.0.
Unit == Pow2(FracBits) * LcmUpTo(MaxDuration)

\* --------------------------------------------------------------------- f32
Fin(neg, mag) == [cls |-> "fin", neg |-> neg, mag |-> mag]
Inf(neg) == [cls |-> "inf", neg |-> neg, mag |-> 0]
NaN == [cls |-> "nan", neg |-> FALSE, mag |-> 0]

\* An integer literal or an integer-valued timestamp difference as f32.
F(n) == IF n < 0 THEN Fin(TRUE, (0 - n) * Unit) ELSE Fin(FALSE, n * Unit)

\* The signed number of units of a finite value.
Units(x) == IF x.neg THEN 0 - x.mag ELSE x.mag

FromUnits(u) == IF u < 0 THEN Fin(TRUE, 0 - u) ELSE Fin(FALSE, u)

\* Round-to-nearest quotient of naturals n / d, d > 0.
RoundDiv(n, d) == (2 * n + d) \div (2 * d)

is_nan(x) == x.cls = "nan"
is_sign_negative(x) == x.neg
is_sign_positive(x) == ~x.neg
IsZero(x) == x.cls = "fin" /\ x.mag = 0

FNeg(x) == [x EXCEPT !.neg = ~x.neg]
FAbs(x) == [x EXCEPT !.neg = FALSE]

FAdd(a, b) ==
    IF is_nan(a) \/ is_nan(b) THEN NaN
    ELSE IF a.cls = "inf" /\ b.cls = "inf"
         THEN IF a.neg = b.neg THEN a ELSE NaN
    ELSE IF a.cls = "inf" THEN a
    ELSE IF b.cls = "inf" THEN b
    ELSE LET s == Units(a) + Units(b)
         IN  IF s = 0 THEN Fin(a.neg /\ b.neg, 0) ELSE FromUnits(s)

FSub(a, b) == FAdd(a, FNeg(b))

FMul(a, b) ==
    IF is_nan(a) \/ is_nan(b) THEN NaN
    ELSE IF a.cls = "inf" \/ b.cls = "inf"
         THEN IF IsZero(a) \/ IsZero(b) THEN NaN ELSE Inf(a.neg # b.neg)
    ELSE Fin(a.neg # b.neg, RoundDiv(a.mag * b.mag, Unit))

FDiv(a, b) ==
    IF is_nan(a) \/ is_nan(b) THEN NaN
    ELSE IF a.cls = "inf"
         THEN IF b.cls = "inf" THEN NaN ELSE Inf(a.neg # b.neg)
    ELSE IF b.cls = "inf" THEN Fin(a.neg # b.neg, 0)
    ELSE IF b.mag = 0
         THEN IF a.mag = 0 THEN NaN ELSE Inf(a.neg # b.neg)
    ELSE Fin(a.neg # b.neg, RoundDiv(a.mag * Unit, b.mag))

\* IEEE comparisons: every comparison with NaN is false, -0.0 equals +0.0.
Ord(x) == IF x.cls = "inf" THEN (IF x.neg THEN 0 - 1 ELSE 1) ELSE 0
FLt(a, b) ==
    /\ ~is_nan(a) /\ ~is_nan(b)
    /\ \/ Ord(a) < Ord(b)
       \/ Ord(a) = 0 /\ Ord(b) = 0 /\ Units(a) < Units(b)
FEq(a, b) ==
    /\ ~is_nan(a) /\ ~is_nan(b)
    /\ Ord(a) = Ord(b)
    /\ Ord(a) = 0 => Units(a) = Units(b)
FLe(a, b) == FLt(a, b) \/ FEq(a, b)
FGt(a, b) == FLt(b, a)
FGe(a, b) == FLe(b, a)
FNe(a, b) == ~FEq(a, b)

\* ------------------------------------------------------------------ Timing
\* std::f32::consts::PI, to the resolution of the model.
pi == Fin(FALSE, RoundDiv(355 * Unit, 113))

\* f32::cos and f32::sin.  TLA+ has no transcendental functions: the two are
\* evaluated by Bhaskara's rational approximations, which agree with the
\* library functions where the curves are pinned (cos 0 = 1, sin 0 = 0) and
\* are reduced to one period like them.
CosQuarter(r, p) == RoundDiv((p * p - 4 * r * r) * Unit, p * p + r * r)
SinHalf(r, p) == RoundDiv(16 * r * (p - r) * Unit, 5 * p * p - 4 * r * (p - r))

cos(y) ==
    IF y.cls # "fin" THEN NaN
    ELSE LET p == pi.mag
             r == y.mag % (2 * p)
         IN  IF 2 * r <= p THEN Fin(FALSE, CosQuarter(r, p))
             ELSE IF 2 * r <= 3 * p
                  THEN LET c == CosQuarter(IF r >= p THEN r - p ELSE p - r, p)
                       IN  Fin(c # 0, c)
             ELSE Fin(FALSE, CosQuarter(2 * p - r, p))

sin(y) ==
    IF y.cls # "fin" THEN NaN
    ELSE LET p == pi.mag
             r == y.mag % (2 * p)
         IN  IF r <= p THEN Fin(y.neg, SinHalf(r, p))
             ELSE Fin(~y.neg, SinHalf(r - p, p))

\* f32::powf(b, 5.0)
powf5(b) == FMul(FMul(FMul(FMul(b, b), b), b), b)

Timings == {"Linear", "EaseIn", "EaseOut", "EaseInOut",
            "EaseInQuint", "EaseOutQuint", "EaseInOutQuint", "Custom"}

\* Timing::timing(self, linear_progress)
Timing_timing(self, linear_progress) ==
    LET x == linear_progress IN
    CASE self = "Linear" -> linear_progress
      [] self = "EaseIn" -> FSub(F(1), cos(FDiv(FMul(x, pi), F(2))))
      [] self = "EaseOut" -> sin(FDiv(FMul(x, pi), F(2)))
      [] self = "EaseInOut" -> FDiv(FNeg(FSub(cos(FMul(pi, x)), F(1))), F(2))
      [] self = "EaseInQuint" -> FMul(FMul(FMul(FMul(x, x), x), x), x)
      [] self = "EaseOutQuint" -> FSub(F(1), powf5(FSub(F(1), x)))
      [] self = "EaseInOutQuint" ->
            IF FLt(x, FDiv(F(1), F(2)))
            THEN FMul(FMul(FMul(FMul(FMul(F(16), x), x), x), x), x)
            ELSE FSub(F(1), FDiv(powf5(FAdd(FMul(F(0 - 2), x), F(2))), F(2)))
      [] OTHER -> linear_progress

\* ----------------------------------------------------------- AnimatedValue
\* Option<T>: None is the empty sequence, Some(v) the sequence of v alone.
None == << >>
Some(v) == << v >>
is_some(o) == o # None
is_none(o) == o = None
unwrap(o) == o[1]

VARIABLES
    position,         \* AnimatedValue::position
    duration_ms,      \* AnimatedValue::duration_ms
    timing,           \* AnimatedValue::timing
    animation_state,  \* AnimatedValue::animation_state: Option<AnimationState>
    \* History of the calls, for stating properties; the code never reads it.
    h_op,             \* the last call: "new", "configure", "transition", "tick"
    h_time,           \* the timestamp handed to the last transition or tick
    h_result,         \* what the last tick returned
    h_flight,         \* how the current flight started and was last retargeted
    \* The wrapper widgets around an animation (widget/src/animated.rs and
    \* widget/src/checkbox.rs); all None while the engine is driven directly.
    tree,             \* which Animating widget the tree holds
    animated_value,   \* animated.rs Animating::animated_value
    animated,         \* checkbox.rs Animating::animation: Animated<CheckboxState>
    redraw_request,   \* what the last event asked of the shell
    \* A second copy of the animation in the tree, handed the same calls.
    twin,
    \* The blending of appearances (Interpolable) and Checkbox::draw: the
    \* arguments of a call and what it returned.
    blend_input, blend_output, draw_input, draw_output,
    \* The AnimationTime the animation is instantiated with.
    clock,
    \* The last event Checkbox::on_event was handed and what it did with it.
    handled

engine_vars == << position, duration_ms, timing, animation_state,
                  h_op, h_time, h_result, h_flight >>
widget_vars == << tree, animated_value, animated, redraw_request >>
style_vars == << blend_input, blend_output, draw_input, draw_output >>
vars == << engine_vars, widget_vars, twin, style_vars, clock, handled >>

\* Mutant: the elapsed time is counted from the epoch, not from time.
elapsed_since_epoch(self, time) == F(self)

\* The two implementations of AnimationTime: std::time::Instant, which the
\* widgets use, and f32, which the tests use.
InstantClock == "std::time::Instant"
F32Clock == "f32"

\* Mutant: the difference of two Instants is signed.
Instant_elapsed_since_signed(self, time) == F(self - time)

\* impl AnimationTime for std::time::Instant: (self - time).as_millis() as f32.
\* Instant - Instant is a Duration, which has no negative values: the
\* subtraction gives the zero Duration when time is later than self.
Instant_elapsed_since(self, time) == F(IF self >= time THEN self - time ELSE 0)

\* impl AnimationTime for f32: self - time.
f32_elapsed_since(self, time) == F(self - time)

\* AnimationTime::elapsed_since of the clock in use.
elapsed_since(self, time) ==
    IF clock = InstantClock THEN Instant_elapsed_since(self, time)
    ELSE f32_elapsed_since(self, time)

\* Mutant: the eased value is computed for every flight, zero range included.
timed_progress_unguarded(self_position, self_timing, self_animation_state) ==
    IF is_some(self_animation_state)
    THEN LET animation == unwrap(self_animation_state)
             current == FSub(self_position, animation.origin)
             range == FSub(animation.destination, animation.origin)
             completion == FDiv(current, range)
         IN  FAdd(animation.origin,
                  FMul(Timing_timing(self_timing, completion), range))
    ELSE self_position

\* AnimatedValue::timed_progress(self)
timed_progress(self_position, self_timing, self_animation_state) ==
    IF is_some(self_animation_state)
       /\ FNe(unwrap(self_animation_state).destination,
              unwrap(self_animation_state).origin)
    THEN LET animation == unwrap(self_animation_state)
             current == FSub(self_position, animation.origin)
             range == FSub(animation.destination, animation.origin)
             completion == FDiv(current, range)
         IN  FAdd(animation.origin,
                  FMul(Timing_timing(self_timing, completion), range))
    ELSE self_position

\* AnimatedValue::animating(self)
animating(self_animation_state) == is_some(self_animation_state)

\* Mutant: the captured speed is not divided by the duration.
interrupt_speed_unscaled(animation, self_duration_ms) ==
    FAbs(FSub(animation.destination, animation.origin))

\* The speed an interrupting transition captures (animation.rs:47-50).
interrupt_speed(animation, self_duration_ms) ==
    FAbs(FDiv(FSub(animation.destination, animation.origin), self_duration_ms))

\* Mutant: the retarget re-anchors to the raw linear position.
interrupt_origin_raw(self_position, self_timing, self_animation_state) ==
    self_position

\* The origin an interrupting transition re-anchors to (animation.rs:43,52).
interrupt_origin(self_position, self_timing, self_animation_state) ==
    timed_progress(self_position, self_timing, self_animation_state)

\* The flight a transition starts from rest (animation.rs:56-62).
new_flight(self_position, destination, time) ==
    [ started_time |-> time,
      last_tick_time |-> time,
      origin |-> self_position,
      destination |-> destination,
      speed_at_interrupt |-> None ]

\* Mutant: every retarget captures the speed anew.
interrupted_flight_respeed(animation, origin, destination, self_duration_ms) ==
    [ animation EXCEPT
        !.speed_at_interrupt =
            Some(FAbs(FDiv(FSub(animation.destination, animation.origin),
                           self_duration_ms))),
        !.origin = origin,
        !.destination = destination ]

\* Mutant: a retarget captures no speed.
interrupted_flight_unsped(animation, origin, destination, self_duration_ms) ==
    [ animation EXCEPT !.origin = origin, !.destination = destination ]

\* Mutant: a retarget restarts the flight's clock at its last tick.
interrupted_flight_restarted(animation, origin, destination, self_duration_ms) ==
    [ animation EXCEPT
        !.speed_at_interrupt =
            IF is_none(animation.speed_at_interrupt)
            THEN Some(interrupt_speed(animation, self_duration_ms))
            ELSE animation.speed_at_interrupt,
        !.started_time = animation.last_tick_time,
        !.origin = origin,
        !.destination = destination ]

\* Mutant: a retarget keeps the destination of the flight it interrupts.
interrupted_flight_same_target(animation, origin, destination, self_duration_ms) ==
    [ animation EXCEPT
        !.speed_at_interrupt =
            IF is_none(animation.speed_at_interrupt)
            THEN Some(interrupt_speed(animation, self_duration_ms))
            ELSE animation.speed_at_interrupt,
        !.origin = origin ]

\* The flight an interrupting transition leaves (animation.rs:44-54).
interrupted_flight(animation, origin, destination, self_duration_ms) ==
    [ animation EXCEPT
        !.speed_at_interrupt =
            IF is_none(animation.speed_at_interrupt)
            THEN Some(interrupt_speed(animation, self_duration_ms))
            ELSE animation.speed_at_interrupt,
        !.origin = origin,
        !.destination = destination ]

\* h_flight describes the current flight, or the last one until the next call
\* at rest; NoFlight is its value when there is none.  origin and destination
\* are those the flight started with; interrupts counts its retargets (2
\* stands for two or more); target is the destination argument of the latest
\* transition; the interrupt_ fields describe the latest retarget: its timestamp,
\* the last_tick_time it found, and position before and after it.
NoFlight == [ origin |-> F(0), destination |-> F(0), interrupts |-> 0,
              target |-> F(0),
              interrupt_time |-> 0, interrupt_anchor |-> 0,
              interrupt_raw |-> F(0), interrupt_position |-> F(0) ]

\* AnimatedValue::transition(&mut self, destination, time)
transition(destination, time) ==
    /\ IF is_some(animation_state)
       THEN LET animation == unwrap(animation_state)
                origin == interrupt_origin(position, timing, animation_state)
            IN  /\ animation_state' =
                       Some(interrupted_flight(animation, origin, destination,
                                               duration_ms))
                /\ position' = origin
                /\ h_flight' = [ h_flight EXCEPT
                                   !.interrupts = IF @ = 0 THEN 1 ELSE 2,
                                   !.target = destination,
                                   !.interrupt_time = time,
                                   !.interrupt_anchor = animation.last_tick_time,
                                   !.interrupt_raw = position,
                                   !.interrupt_position = origin ]
       ELSE /\ animation_state' = Some(new_flight(position, destination, time))
            /\ position' = position
            /\ h_flight' = [ NoFlight EXCEPT
                               !.origin = position,
                               !.destination = destination,
                               !.target = destination ]
    /\ h_op' = "transition"
    /\ h_time' = time
    /\ UNCHANGED << duration_ms, timing, h_result >>

\* Mutant: the step of an unretargeted flight is not divided by the duration.
position_delta_unscaled(animation, elapsed, self_duration_ms) ==
    IF is_some(animation.speed_at_interrupt)
    THEN LET speed == unwrap(animation.speed_at_interrupt)
             signed_speed == IF FGt(animation.origin, animation.destination)
                             THEN FNeg(speed)
                             ELSE speed
         IN  FMul(elapsed, signed_speed)
    ELSE FMul(elapsed, FSub(animation.destination, animation.origin))

\* Mutant: a retargeted flight keeps stepping by elapsed / duration.
position_delta_unsped(animation, elapsed, self_duration_ms) ==
    FMul(FDiv(elapsed, self_duration_ms),
         FSub(animation.destination, animation.origin))

\* position_delta of tick (animation.rs:67-81).
position_delta(animation, elapsed, self_duration_ms) ==
    IF is_some(animation.speed_at_interrupt)
    THEN LET speed == unwrap(animation.speed_at_interrupt)
             signed_speed == IF FGt(animation.origin, animation.destination)
                             THEN FNeg(speed)
                             ELSE speed
         IN  FMul(elapsed, signed_speed)
    ELSE LET duration == self_duration_ms
             delta == FDiv(elapsed, duration)
         IN  FMul(delta, FSub(animation.destination, animation.origin))

\* Mutant: the completion test ignores the direction of travel.
reached_upward_only(delta, advanced, destination) ==
    FGe(advanced, destination)

\* Mutant: landing exactly on the destination does not complete the flight.
reached_strictly(delta, advanced, destination) ==
    \/ is_sign_positive(delta) /\ FGt(advanced, destination)
    \/ is_sign_negative(delta) /\ FLt(advanced, destination)

\* The completion test of tick on the advanced position (animation.rs:87-93).
reached(delta, advanced, destination) ==
    \/ is_sign_positive(delta) /\ FGe(advanced, destination)
    \/ is_sign_negative(delta) /\ FLe(advanced, destination)

\* Mutant: a zero duration does not force completion.
finished_untimed(delta, advanced, destination, self_duration_ms) ==
    \/ is_sign_positive(delta) /\ FGe(advanced, destination)
    \/ is_sign_negative(delta) /\ FLe(advanced, destination)

\* finished of tick (animation.rs:82-94).
finished(delta, advanced, destination, self_duration_ms) ==
    IF FEq(self_duration_ms, F(0)) THEN TRUE
    ELSE reached(delta, advanced, destination)

\* Mutant: the step is subtracted from position.
advanced_position_backwards(self_position, delta, self_duration_ms) ==
    IF FEq(self_duration_ms, F(0)) THEN self_position
    ELSE FSub(self_position, delta)

\* The position tick leaves before the completion snap (animation.rs:83-86).
advanced_position(self_position, delta, self_duration_ms) ==
    IF FEq(self_duration_ms, F(0)) THEN self_position
    ELSE FAdd(self_position, delta)

\* Mutant: completion does not snap position to the destination.
finished_position_unsnapped(advanced, destination) == advanced

\* The position tick leaves when the flight is finished (animation.rs:96-97).
finished_position(advanced, destination) == destination

\* Mutant: the completing tick reports no redraw.
tick_result_quiet(is_finished) == ~is_finished

\* What tick returns for a flight (animation.rs:96-101).
tick_result(is_finished) == TRUE

\* AnimatedValue::tick(&mut self, time) -> bool
tick(time) ==
    /\ IF is_some(animation_state)
       THEN LET animation == unwrap(animation_state)
                elapsed == elapsed_since(time, animation.last_tick_time)
                delta == position_delta(animation, elapsed, duration_ms)
                advanced == advanced_position(position, delta, duration_ms)
            IN  IF finished(delta, advanced, animation.destination, duration_ms)
                THEN /\ position' = finished_position(advanced,
                                                      animation.destination)
                     /\ animation_state' = None
                     /\ h_result' = tick_result(TRUE)
                ELSE /\ position' = advanced
                     /\ animation_state' =
                            Some([ animation EXCEPT !.last_tick_time = time ])
                     /\ h_result' = tick_result(FALSE)
       ELSE /\ UNCHANGED << position, animation_state >>
            /\ h_result' = FALSE
    /\ h_op' = "tick"
    /\ h_time' = time
    /\ h_flight' = IF is_some(animation_state) THEN h_flight ELSE NoFlight
    /\ UNCHANGED << duration_ms, timing >>

\* The public fields duration_ms and timing are assigned on the value new
\* returned, as the tests do before the first transition.  (test_progression
\* also assigns duration_ms between two flights; the resting state that leaves
\* is one this action reaches from another initial position.)
configure(duration, curve) ==
    /\ h_op = "new"
    /\ duration_ms' = F(duration)
    /\ timing' = curve
    /\ h_op' = "configure"
    /\ UNCHANGED << position, animation_state, h_time, h_result, h_flight >>

\* AnimatedValue::new(position)
Init ==
    /\ position \in { F(p) : p \in Targets }
    /\ duration_ms = F(0)
    /\ timing = "Linear"
    /\ animation_state = None
    /\ h_op = "new"
    /\ h_time = 0
    /\ h_result = FALSE
    /\ h_flight = NoFlight
    /\ tree = None /\ animated_value = None
    /\ animated = None /\ redraw_request = None
    /\ twin = None
    /\ blend_input = None /\ blend_output = None
    /\ draw_input = None /\ draw_output = None
    /\ clock = F32Clock
    /\ handled = None

\* The caller's clock: the redraw loop hands every call a timestamp that is
\* not earlier than the one before.
Later(time) == time >= h_time

\* What no call on the engine touches.
beyond_engine == << widget_vars, twin, style_vars, clock, handled >>

Transition == \E destination \in Targets, time \in Times :
                  /\ Later(time) /\ transition(F(destination), time)
                  /\ UNCHANGED beyond_engine
Tick == \E time \in Times : Later(time) /\ tick(time) /\ UNCHANGED beyond_engine
Configure == \E duration \in Durations, curve \in Timings :
                 configure(duration, curve) /\ UNCHANGED beyond_engine

Next == Transition \/ Tick \/ Configure

Spec == Init /\ [][Next]_vars

\* ------------------------------------ widget/src/animated.rs: Animating
\* The AnimatedValue the widget tree holds, as one value.
Self == [ position |-> position, duration_ms |-> duration_ms,
          timing |-> timing, animation_state |-> animation_state ]

\* AnimatedValue::transition as a function of the value it is called on.
AnimatedValue_transition(self, destination, time) ==
    IF is_some(self.animation_state)
    THEN LET flight == unwrap(self.animation_state)
             origin == interrupt_origin(self.position, self.timing,
                                        self.animation_state)
         IN  [ self EXCEPT
                 !.animation_state =
                     Some(interrupted_flight(flight, origin, destination,
                                             self.duration_ms)),
                 !.position = origin ]
    ELSE [ self EXCEPT
             !.animation_state =
                 Some(new_flight(self.position, destination, time)) ]

\* AnimatedValue::tick as a function of the value it is called on: the value
\* it leaves.
AnimatedValue_tick(self, time) ==
    IF is_some(self.animation_state)
    THEN LET flight == unwrap(self.animation_state)
             elapsed == elapsed_since(time, flight.last_tick_time)
             delta == position_delta(flight, elapsed, self.duration_ms)
             advanced == advanced_position(self.position, delta,
                                           self.duration_ms)
         IN  IF finished(delta, advanced, flight.destination, self.duration_ms)
             THEN [ self EXCEPT
                      !.position = finished_position(advanced,
                                                     flight.destination),
                      !.animation_state = None ]
             ELSE [ self EXCEPT
                      !.position = advanced,
                      !.animation_state =
                          Some([ flight EXCEPT !.last_tick_time = time ]) ]
    ELSE self

\* What AnimatedValue::tick returns on that value.
AnimatedValue_tick_returns(self, time) ==
    IF is_some(self.animation_state)
    THEN LET flight == unwrap(self.animation_state)
             elapsed == elapsed_since(time, flight.last_tick_time)
             delta == position_delta(flight, elapsed, self.duration_ms)
             advanced == advanced_position(self.position, delta,
                                           self.duration_ms)
         IN  tick_result(finished(delta, advanced, flight.destination,
                                  self.duration_ms))
    ELSE FALSE

\* shell.request_redraw(window::RedrawRequest::NextFrame)
NextFrame == "NextFrame"

\* Mutant: every redraw event hands the widget's value to transition.
retargeted_unguarded(self, self_animated_value, now) ==
    AnimatedValue_transition(self, self_animated_value, now)

\* The guarded retarget of Animating::on_event (animated.rs:94-105).
retargeted(self, self_animated_value, now) ==
    IF is_some(self.animation_state)
    THEN IF FNe(unwrap(self.animation_state).destination, self_animated_value)
         THEN AnimatedValue_transition(self, self_animated_value, now)
         ELSE self
    ELSE IF FNe(self.position, self_animated_value)
         THEN AnimatedValue_transition(self, self_animated_value, now)
         ELSE self

\* Mutant: the event ticks the animation before it retargets it.
animated_Animating_on_event_tick_first(self, self_animated_value, now) ==
    LET ticked == AnimatedValue_tick(self, now)
        state == retargeted(ticked, self_animated_value, now)
    IN  [ state |-> state,
          redraw |-> IF animating(self.animation_state)
                        \/ animating(state.animation_state)
                     THEN Some(NextFrame) ELSE None ]

\* Mutant: the frame that completes the animation asks for no further redraw.
animated_Animating_on_event_while_animating(self, self_animated_value, now) ==
    LET state == retargeted(self, self_animated_value, now)
        ticked == AnimatedValue_tick(state, now)
    IN  IF animating(state.animation_state)
        THEN [ state |-> ticked,
               redraw |-> IF animating(ticked.animation_state)
                          THEN Some(NextFrame) ELSE None ]
        ELSE [ state |-> state, redraw |-> None ]

\* Animating::on_event of animated.rs on Event::Window(RedrawRequested(now)):
\* the state it leaves in the tree and what it asks of the shell.
animated_Animating_on_event(self, self_animated_value, now) ==
    LET state == retargeted(self, self_animated_value, now)
    IN  IF animating(state.animation_state)
        THEN [ state |-> AnimatedValue_tick(state, now),
               redraw |-> IF AnimatedValue_tick_returns(state, now)
                          THEN Some(NextFrame) ELSE None ]
        ELSE [ state |-> state, redraw |-> None ]

AnimatedTree == "animated::Animating"
CheckboxTree == "checkbox::Animating"

\* A RedrawRequested(now) event reaches the Animating widget of animated.rs.
animated_on_event(now) ==
    /\ tree = AnimatedTree
    /\ LET out == animated_Animating_on_event(Self, animated_value, now)
       IN  /\ position' = out.state.position
           /\ animation_state' = out.state.animation_state
           /\ redraw_request' = out.redraw
    /\ h_op' = "on_event"
    /\ h_time' = now
    /\ UNCHANGED << duration_ms, timing, h_result, h_flight,
                    tree, animated_value, animated >>

\* The application rebuilds the widget around a new value (Animating::new).
view(value) ==
    /\ tree = AnimatedTree
    /\ animated_value' = value
    /\ h_op' = "view"
    /\ UNCHANGED << position, duration_ms, timing, animation_state,
                    h_time, h_result, h_flight, tree, animated, redraw_request >>

\* Animating::state builds the animation from the widget's value, duration and
\* timing when the widget enters the tree.
animated_state(value, duration, curve) ==
    /\ tree = AnimatedTree
    /\ animated_value = value
    /\ position = value
    /\ duration_ms = F(duration)
    /\ timing = curve
    /\ animation_state = None
    /\ animated = None

\* ------------------------------------------------ a tick back in time
\* tick accepts any Time and does not compare it with the one before.  A
\* caller hands a flight a timestamp earlier than its last_tick_time; what the
\* caller does after that is not followed.  The animation is built over
\* either clock.
stale_tick(time) ==
    /\ h_op # "stale tick"
    /\ is_some(animation_state)
    /\ time < unwrap(animation_state).last_tick_time
    /\ position' = AnimatedValue_tick(Self, time).position
    /\ animation_state' = AnimatedValue_tick(Self, time).animation_state
    /\ h_result' = AnimatedValue_tick_returns(Self, time)
    /\ h_op' = "stale tick"
    /\ h_time' = time
    /\ UNCHANGED << duration_ms, timing, h_flight >>

UnorderedInit ==
    /\ position \in { F(p) : p \in Targets }
    /\ duration_ms = F(0)
    /\ timing = "Linear"
    /\ animation_state = None
    /\ h_op = "new"
    /\ h_time = 0
    /\ h_result = FALSE
    /\ h_flight = NoFlight
    /\ tree = None /\ animated_value = None
    /\ animated = None /\ redraw_request = None
    /\ twin = None
    /\ blend_input = None /\ blend_output = None
    /\ draw_input = None /\ draw_output = None
    /\ clock \in {F32Clock, InstantClock}
    /\ handled = None

OrderedTransition == h_op # "stale tick" /\ Transition
OrderedTick == h_op # "stale tick" /\ Tick
OrderedConfigure == h_op # "stale tick" /\ Configure
StaleTick == \E time \in Times : stale_tick(time) /\ UNCHANGED beyond_engine

UnorderedNext ==
    OrderedTransition \/ OrderedTick \/ OrderedConfigure \/ StaleTick

UnorderedSpec == UnorderedInit /\ [][UnorderedNext]_vars

\* ------------------------------------ widget/src/checkbox.rs: Animated
\* The Timing enum of checkbox.rs and its curves.
WidgetTimings == {"Linear", "EaseIn", "EaseOut", "EaseInOut", "Custom"}

widget_Timing_timing(self, linear_progress) ==
    LET x == linear_progress IN
    CASE self = "Linear" -> linear_progress
      [] self = "EaseIn" -> FSub(F(1), cos(FDiv(FMul(x, pi), F(2))))
      [] self = "EaseOut" -> sin(FDiv(FMul(x, pi), F(2)))
      [] self = "EaseInOut" -> FDiv(FNeg(FSub(cos(FMul(pi, x)), F(1))), F(2))
      [] OTHER -> linear_progress

\* Mutant: the two weights are exchanged.
f32_interpolated_swapped(self, other, ratio) ==
    FAdd(FMul(self, ratio), FMul(other, FSub(F(1), ratio)))

\* impl Interpolable for f32
f32_interpolated(self, other, ratio) ==
    FAdd(FMul(self, FSub(F(1), ratio)), FMul(other, ratio))

Amount(value) == IF value THEN F(1) ELSE F(0)

\* CheckboxState::new
CheckboxState_new(is_checked, is_hovered) ==
    [ checked_amount |-> Amount(is_checked),
      hovered_amount |-> Amount(is_hovered) ]

\* CheckboxState::check
check(self, value) == [ self EXCEPT !.checked_amount = Amount(value) ]

\* impl InterpolableState for CheckboxState
CheckboxState_interpolate(self, other, ratio) ==
    [ checked_amount |-> f32_interpolated(self.checked_amount,
                                          other.checked_amount, ratio),
      hovered_amount |-> f32_interpolated(self.hovered_amount,
                                          other.hovered_amount, ratio) ]

\* Option::unwrap_or
unwrap_or(o, default) == IF is_some(o) THEN unwrap(o) ELSE default

\* std::time::Duration::from_millis(500), the duration Animated::new sets.
DefaultDuration == 500

\* Animated::new
Animated_new(value) ==
    [ linear_progress |-> F(0),
      started |-> None,
      last |-> None,
      from |-> value,
      to |-> None,
      duration |-> DefaultDuration,
      timing |-> "Linear" ]

\* Animated::timed_progress
Animated_timed_progress(self) ==
    widget_Timing_timing(self.timing, self.linear_progress)

\* Animated::animating
Animated_animating(self) == is_some(self.to)

\* Animated::interpolated_value
interpolated_value(self) ==
    IF is_some(self.to)
    THEN CheckboxState_interpolate(self.from, unwrap(self.to),
                                   Animated_timed_progress(self))
    ELSE self.from

\* Animated::real_value
real_value(self) == unwrap_or(self.to, self.from)

\* The closures the application hands to Animated::transition:
\* |state| state.check(value).
Updates == BOOLEAN

update_target(update, target) == check(target, update)

\* Animated::transition; instant_now is what std::time::Instant::now() reads.
Animated_transition(self, update, instant_now) ==
    LET target == update_target(update, self.from)
        snapshot ==
            IF Animated_animating(self)
            THEN [ self EXCEPT
                     !.from = CheckboxState_interpolate(
                                  self.from, unwrap_or(self.to, self.from),
                                  self.linear_progress),
                     !.linear_progress = FSub(F(1), self.linear_progress),
                     !.to = Some(target) ]
            ELSE self
    IN  [ snapshot EXCEPT
            !.last = None,
            !.started = Some(instant_now),
            !.to = Some(target) ]

\* (a - b).as_millis() as f32 for two Instants: the difference saturates at
\* zero.
millis_between(a, b) == IF a >= b THEN F(a - b) ELSE F(0)

\* Mutant: completion forgets to clear the target.
completed_keeps_target(self) ==
    [ self EXCEPT
        !.from = IF is_some(self.to) THEN unwrap(self.to) ELSE @,
        !.linear_progress = F(0),
        !.started = None,
        !.last = None ]

\* What the completion branch of on_redraw_request_update leaves
\* (checkbox.rs:359-365).
completed(self) ==
    [ self EXCEPT
        !.from = IF is_some(self.to) THEN unwrap(self.to) ELSE @,
        !.linear_progress = F(0),
        !.started = None,
        !.to = None,
        !.last = None ]

\* Animated::on_redraw_request_update: the value it leaves.
on_redraw_request_update(self, now) ==
    IF is_some(self.started)
    THEN LET start == unwrap(self.started)
             elapsed == millis_between(now, unwrap_or(self.last, start))
             duration == F(self.duration)
             progressed == [ self EXCEPT
                               !.linear_progress =
                                   FAdd(@, FDiv(elapsed, duration)) ]
             updated == IF \/ FGe(progressed.linear_progress, F(1))
                           \/ is_nan(progressed.linear_progress)
                        THEN completed(progressed)
                        ELSE progressed
         IN  [ updated EXCEPT !.last = Some(now) ]
    ELSE self

\* Animated::on_redraw_request_update: what it returns.
on_redraw_request_update_returns(self, now) == is_some(self.started)

\* Animating::on_event of checkbox.rs on Event::Window(RedrawRequested(now)).
checkbox_Animating_on_event(self_animation, now) ==
    [ animation |-> on_redraw_request_update(self_animation, now),
      redraw |-> IF on_redraw_request_update_returns(self_animation, now)
                 THEN Some(NextFrame) ELSE None ]

\* A RedrawRequested(now) event reaches the Animating widget of checkbox.rs.
checkbox_on_event(now) ==
    /\ tree = CheckboxTree
    /\ LET out == checkbox_Animating_on_event(animated, now)
       IN  /\ animated' = out.animation
           /\ redraw_request' = out.redraw
    /\ h_op' = "on_event"
    /\ h_time' = now
    /\ UNCHANGED << position, duration_ms, timing, animation_state,
                    h_result, h_flight, tree, animated_value >>

\* The application calls Animated::transition with a closure.
animate(update, instant_now) ==
    /\ tree = CheckboxTree
    /\ animated' = Animated_transition(animated, update, instant_now)
    /\ h_op' = "transition"
    /\ h_time' = instant_now
    /\ UNCHANGED << position, duration_ms, timing, animation_state,
                    h_result, h_flight, tree, animated_value, redraw_request >>

\* Animating::new(child, Animated::new(value), _).duration(d).timing(t)
checkbox_state(value, duration, curve) ==
    /\ tree = CheckboxTree
    /\ animated = [ Animated_new(value) EXCEPT
                      !.duration = duration, !.timing = curve ]
    /\ animated_value = None
    /\ position = F(0)
    /\ duration_ms = F(0)
    /\ timing = "Linear"
    /\ animation_state = None

\* ------------------------------------------------- the widgets' behaviours
WidgetInit ==
    /\ \/ \E value \in Targets, duration \in Durations, curve \in Timings :
              animated_state(F(value), duration, curve)
       \/ \E is_checked \in BOOLEAN, is_hovered \in BOOLEAN,
             duration \in Durations, curve \in WidgetTimings :
              checkbox_state(CheckboxState_new(is_checked, is_hovered),
                             duration, curve)
    /\ h_op = "new"
    /\ h_time = 0
    /\ h_result = FALSE
    /\ h_flight = NoFlight
    /\ redraw_request = None
    /\ twin = None
    /\ blend_input = None /\ blend_output = None
    /\ draw_input = None /\ draw_output = None
    /\ clock = InstantClock
    /\ handled = None

\* What no event of the widgets touches.
beyond_widget == << twin, style_vars, clock, handled >>

AnimatedOnEvent == \E now \in Times :
                       /\ Later(now) /\ animated_on_event(now)
                       /\ UNCHANGED beyond_widget
View == \E value \in Targets : view(F(value)) /\ UNCHANGED beyond_widget
CheckboxOnEvent == \E now \in Times :
                       /\ Later(now) /\ checkbox_on_event(now)
                       /\ UNCHANGED beyond_widget
Animate == \E update \in Updates, instant_now \in Times :
               /\ Later(instant_now) /\ animate(update, instant_now)
               /\ UNCHANGED beyond_widget

WidgetNext == AnimatedOnEvent \/ View \/ CheckboxOnEvent \/ Animate

WidgetSpec == WidgetInit /\ [][WidgetNext]_vars

\* ------------------------------------------------------ two copies
\* Two copies of the animation in the tree start in the same state and are
\* handed the same calls with the same arguments.  Whatever a call reads by
\* itself, each copy reads on its own: Animated::transition reads
\* std::time::Instant::now() (checkbox.rs:347).
TwinInit ==
    /\ \/ \E value \in Targets, duration \in Durations, curve \in Timings :
              animated_state(F(value), duration, curve) /\ twin = Self
       \/ \E is_checked \in BOOLEAN, is_hovered \in BOOLEAN,
             duration \in Durations, curve \in WidgetTimings :
              /\ checkbox_state(CheckboxState_new(is_checked, is_hovered),
                                duration, curve)
              /\ twin = animated
    /\ h_op = "new"
    /\ h_time = 0
    /\ h_result = FALSE
    /\ h_flight = NoFlight
    /\ redraw_request = None
    /\ blend_input = None /\ blend_output = None
    /\ draw_input = None /\ draw_output = None
    /\ clock = InstantClock
    /\ handled = None

TwinAnimatedOnEvent ==
    \E now \in Times :
        /\ Later(now) /\ animated_on_event(now)
        /\ twin' = animated_Animating_on_event(twin, animated_value, now).state
        /\ UNCHANGED << style_vars, clock, handled >>

TwinView == \E value \in Targets : view(F(value)) /\ UNCHANGED << twin, style_vars, clock, handled >>

TwinCheckboxOnEvent ==
    \E now \in Times :
        /\ Later(now) /\ checkbox_on_event(now)
        /\ twin' = checkbox_Animating_on_event(twin, now).animation
        /\ UNCHANGED << style_vars, clock, handled >>

TwinAnimate ==
    \E update \in Updates, instant_now \in Times, twin_now \in Times :
        /\ Later(instant_now) /\ Later(twin_now)
        /\ tree = CheckboxTree
        /\ animated' = Animated_transition(animated, update, instant_now)
        /\ twin' = Animated_transition(twin, update, twin_now)
        /\ h_op' = "transition"
        /\ h_time' = IF instant_now >= twin_now THEN instant_now ELSE twin_now
        /\ UNCHANGED << position, duration_ms, timing, animation_state,
                        h_result, h_flight, tree, animated_value,
                        redraw_request, style_vars, clock, handled >>

TwinNext == TwinAnimatedOnEvent \/ TwinView \/ TwinCheckboxOnEvent \/ TwinAnimate

TwinSpec == TwinInit /\ [][TwinNext]_vars

\* ------------------------------------------ Interpolable and Appearance
\* core::Color: the channels r, g, b, a.
Color(r, g, b, a) == [ r |-> r, g |-> g, b |-> b, a |-> a ]
Black == Color(F(0), F(0), F(0), F(1))
White == Color(F(1), F(1), F(1), F(1))
Colors == {Black, White}

\* Color::mixed: the channels are mixed linearly.
Color_mixed(self, other, ratio) ==
    [ r |-> FAdd(FMul(self.r, FSub(F(1), ratio)), FMul(other.r, ratio)),
      g |-> FAdd(FMul(self.g, FSub(F(1), ratio)), FMul(other.g, ratio)),
      b |-> FAdd(FMul(self.b, FSub(F(1), ratio)), FMul(other.b, ratio)),
      a |-> FAdd(FMul(self.a, FSub(F(1), ratio)), FMul(other.a, ratio)) ]

\* impl Interpolable for Color
Color_interpolated(self, other, ratio) == Color_mixed(self, other, ratio)

\* core::Background: a colour or a gradient.
Background_Color(c) == [ kind |-> "Color", color |-> c ]
Background_Gradient == [ kind |-> "Gradient" ]
Backgrounds == { Background_Color(c) : c \in Colors } \cup {Background_Gradient}

\* Mutant: a background that is not a colour on both sides keeps the first.
Background_interpolated_keep_self(self, other, ratio) ==
    IF self.kind = "Color" /\ other.kind = "Color"
    THEN Background_Color(Color_interpolated(self.color, other.color, ratio))
    ELSE self

\* impl Interpolable for Background
Background_interpolated(self, other, ratio) ==
    IF self.kind = "Color" /\ other.kind = "Color"
    THEN Background_Color(Color_interpolated(self.color, other.color, ratio))
    ELSE other

\* Mutant: an option absent on one side keeps the first operand.
Option_interpolated_keep_self(self, other, ratio) ==
    IF is_some(self) /\ is_some(other)
    THEN Some(Color_interpolated(unwrap(self), unwrap(other), ratio))
    ELSE self

\* impl Interpolable for Option<T>, at T = Color
Option_interpolated(self, other, ratio) ==
    IF is_some(self) /\ is_some(other)
    THEN Some(Color_interpolated(unwrap(self), unwrap(other), ratio))
    ELSE other

\* core::BorderRadius: the radii of the four corners.
BorderRadius(radius) == [ corner \in 1..4 |-> radius ]

\* Mutant: the radius is taken from the second operand.
BorderRadius_interpolated_other(self, other, ratio) == other

\* impl Interpolable for BorderRadius
BorderRadius_interpolated(self, other, ratio) == self

\* impl Interpolable for Appearance
Appearance_interpolated(self, other, ratio) ==
    [ background |-> Background_interpolated(self.background,
                                             other.background, ratio),
      icon_color |-> Color_interpolated(self.icon_color, other.icon_color,
                                        ratio),
      border_radius |-> BorderRadius_interpolated(self.border_radius,
                                                  other.border_radius, ratio),
      border_width |-> f32_interpolated(self.border_width, other.border_width,
                                        ratio),
      border_color |-> Color_interpolated(self.border_color,
                                          other.border_color, ratio),
      text_color |-> Option_interpolated(self.text_color, other.text_color,
                                         ratio) ]

\* The appearances and ratios a blend is tried on.
Appearances ==
    [ background : Backgrounds,
      icon_color : Colors,
      border_radius : { BorderRadius(F(p)) : p \in Targets },
      border_width : { F(p) : p \in Targets },
      border_color : {Black},
      text_color : {None} \cup { Some(c) : c \in Colors } ]

Ratios == { FDiv(F(k), F(MaxDuration)) : k \in 0..MaxDuration }

BlendInit ==
    /\ blend_input \in [ self : Appearances, other : Appearances,
                         ratio : Ratios ]
    /\ blend_output = None
    /\ draw_input = None /\ draw_output = None
    /\ twin = None
    /\ tree = None /\ animated_value = None
    /\ animated = None /\ redraw_request = None
    /\ position = F(0) /\ duration_ms = F(0) /\ timing = "Linear"
    /\ animation_state = None
    /\ h_op = "new" /\ h_time = 0 /\ h_result = FALSE /\ h_flight = NoFlight
    /\ clock = None
    /\ handled = None

\* self.interpolated(other, ratio) is called on the appearances.
Interpolate ==
    /\ blend_output = None
    /\ blend_output' = Some(Appearance_interpolated(blend_input.self,
                                                    blend_input.other,
                                                    blend_input.ratio))
    /\ UNCHANGED << engine_vars, widget_vars, twin, blend_input,
                    draw_input, draw_output, clock, handled >>

BlendSpec == BlendInit /\ [][Interpolate]_vars

\* ---------------------------------------------------- Checkbox::draw
\* What a StyleSheet hands to draw: theme.active(style, is_checked) and
\* theme.hovered(style, is_checked).  The theme is the application's; this one
\* sets a thinner border and a white text under the cursor.
Theme_active(is_checked) ==
    [ background |-> Background_Color(IF is_checked THEN Black ELSE White),
      icon_color |-> IF is_checked THEN White ELSE Black,
      border_radius |-> BorderRadius(F(0)),
      border_width |-> F(1),
      border_color |-> Black,
      text_color |-> Some(Black) ]

Theme_hovered(is_checked) ==
    [ Theme_active(is_checked) EXCEPT
        !.border_width = F(0),
        !.text_color = Some(White) ]

\* The appearance Checkbox::draw computes (checkbox.rs:619-637).
interpolated_style(self_state, is_mouse_over) ==
    LET amount == interpolated_value(self_state).checked_amount
        custom_style_on == IF is_mouse_over THEN Theme_hovered(TRUE)
                           ELSE Theme_active(TRUE)
        custom_style_off == IF is_mouse_over THEN Theme_hovered(FALSE)
                            ELSE Theme_active(FALSE)
    IN  Appearance_interpolated(custom_style_off, custom_style_on, amount)

\* Checkbox::draw with the cursor over the bounds or not; the frame shows the
\* state it was drawn from until the next call on that state.
draw(is_mouse_over) ==
    /\ tree = CheckboxTree
    /\ draw_input' = Some(is_mouse_over)
    /\ draw_output' = Some(interpolated_style(animated, is_mouse_over))
    /\ h_op' = "draw"
    /\ UNCHANGED << position, duration_ms, timing, animation_state,
                    h_time, h_result, h_flight, widget_vars, twin,
                    blend_input, blend_output, clock, handled >>

DrawInit ==
    /\ \E is_checked \in BOOLEAN, is_hovered \in BOOLEAN,
          duration \in Durations, curve \in WidgetTimings :
           checkbox_state(CheckboxState_new(is_checked, is_hovered),
                          duration, curve)
    /\ h_op = "new"
    /\ h_time = 0
    /\ h_result = FALSE
    /\ h_flight = NoFlight
    /\ redraw_request = None
    /\ twin = None
    /\ blend_input = None /\ blend_output = None
    /\ draw_input = None /\ draw_output = None
    /\ clock = InstantClock
    /\ handled = None

Draw == \E is_mouse_over \in BOOLEAN : draw(is_mouse_over)
DrawOnEvent == \E now \in Times :
                   /\ Later(now) /\ checkbox_on_event(now)
                   /\ draw_input' = None /\ draw_output' = None
                   /\ UNCHANGED << twin, blend_input, blend_output, clock, handled >>
DrawAnimate == \E update \in Updates, instant_now \in Times :
                   /\ Later(instant_now) /\ animate(update, instant_now)
                   /\ draw_input' = None /\ draw_output' = None
                   /\ UNCHANGED << twin, blend_input, blend_output, clock, handled >>

DrawNext == Draw \/ DrawOnEvent \/ DrawAnimate

DrawSpec == DrawInit /\ [][DrawNext]_vars

\* ------------------------------------------------- Checkbox::on_event
\* The events the checkbox is handed: the two it matches on, and others.
LeftPressed == "Mouse(ButtonPressed(Left))"
FingerPressed == "Touch(FingerPressed)"
RightPressed == "Mouse(ButtonPressed(Right))"
CursorMoved == "Mouse(CursorMoved)"
Events == {LeftPressed, FingerPressed, RightPressed, CursorMoved}

Captured == "Captured"
Ignored == "Ignored"

\* Mutant: the toggle negates the checked amount on display.
toggled_displayed(self_state) ==
    ~FEq(interpolated_value(self_state).checked_amount, F(1))

\* The argument of on_toggle (checkbox.rs:577):
\* !(self.state.to.unwrap_or(self.state.from).checked_amount == 1.0)
toggled(self_state) ==
    ~FEq(unwrap_or(self_state.to, self_state.from).checked_amount, F(1))

\* Checkbox::on_event: the message it publishes, the redraw it requests and
\* the status it returns; mouse_over is cursor.is_over(layout.bounds()).
Checkbox_on_event(self_state, event, mouse_over) ==
    IF event \in {LeftPressed, FingerPressed} /\ mouse_over
    THEN [ publish |-> Some(toggled(self_state)),
           redraw |-> Some(NextFrame),
           status |-> Captured ]
    ELSE [ publish |-> None, redraw |-> None, status |-> Ignored ]

\* An event reaches the checkbox drawn from the animation; the record shows
\* the state it was handed in until the next call on that state.
press(event, mouse_over) ==
    /\ tree = CheckboxTree
    /\ handled' = Some([ event |-> event, mouse_over |-> mouse_over,
                         did |-> Checkbox_on_event(animated, event,
                                                   mouse_over) ])
    /\ redraw_request' = Checkbox_on_event(animated, event, mouse_over).redraw
    /\ h_op' = "press"
    /\ UNCHANGED << position, duration_ms, timing, animation_state,
                    h_time, h_result, h_flight, tree, animated_value,
                    animated, twin, style_vars, clock >>

PressInit ==
    /\ \E is_checked \in BOOLEAN, is_hovered \in BOOLEAN,
          duration \in Durations, curve \in WidgetTimings :
           checkbox_state(CheckboxState_new(is_checked, is_hovered),
                          duration, curve)
    /\ h_op = "new"
    /\ h_time = 0
    /\ h_result = FALSE
    /\ h_flight = NoFlight
    /\ redraw_request = None
    /\ twin = None
    /\ blend_input = None /\ blend_output = None
    /\ draw_input = None /\ draw_output = None
    /\ clock = InstantClock
    /\ handled = None

Press == \E event \in Events, mouse_over \in BOOLEAN : press(event, mouse_over)
PressOnEvent == \E now \in Times :
                    /\ Later(now) /\ checkbox_on_event(now)
                    /\ handled' = None
                    /\ UNCHANGED << twin, style_vars, clock >>
PressAnimate == \E update \in Updates, instant_now \in Times :
                    /\ Later(instant_now) /\ animate(update, instant_now)
                    /\ handled' = None
                    /\ UNCHANGED << twin, style_vars, clock >>

PressNext == Press \/ PressOnEvent \/ PressAnimate

PressSpec == PressInit /\ [][PressNext]_vars

\* ------------------------------------------------------------- properties
InFlight == is_some(animation_state)
Resting == is_none(animation_state)
Flight == unwrap(animation_state)
Interrupted == InFlight /\ is_some(Flight.speed_at_interrupt)
Shown == timed_progress(position, timing, animation_state)
Positive(x) == FGt(x, F(0))

\* A step of the named call (h_op' names the call a step makes).
TransitionStep == h_op' = "transition"
TickStep == h_op' = "tick"

\* C1: an interrupting transition leaves the displayed value unchanged:
\* timed_progress() right after the call equals timed_progress() right before
\* it, in every in-flight state and for every timing curve.
C1_InterruptKeepsShownValue ==
    [][ (InFlight /\ TransitionStep)
        => FEq(timed_progress(position', timing', animation_state'), Shown) ]_vars

\* A retarget has just re-anchored a flight whose eased value differed from
\* its raw linear position.
C1_Witness ==
    /\ InFlight /\ h_op = "transition" /\ h_flight.interrupts >= 1
    /\ FNe(h_flight.interrupt_raw, h_flight.interrupt_position)
    /\ FEq(position, h_flight.interrupt_position)
    /\ FNe(Flight.destination, Flight.origin)

\* C2 (as claimed): a transition whose target equals the destination of the
\* flight in progress changes no field of the animation.
C2_SameTargetIsNoOp ==
    [][ (InFlight /\ TransitionStep /\ InFlight'
         /\ FEq(unwrap(animation_state').destination, Flight.destination))
        => (position' = position /\ animation_state' = animation_state) ]_vars

\* C3: a tick that completes a flight leaves position exactly at the
\* destination and the animation at rest with no flight state; a tick completes
\* the flight whenever its completion test holds.
C3_CompletionSnapsAndClears ==
    [][ (InFlight /\ TickStep)
        => LET elapsed == elapsed_since(h_time', Flight.last_tick_time)
               delta == position_delta(Flight, elapsed, duration_ms)
               advanced == advanced_position(position, delta, duration_ms)
               done == finished(delta, advanced, Flight.destination, duration_ms)
           IN  /\ done <=> Resting'
               /\ Resting' => /\ FEq(position', Flight.destination)
                              /\ ~animating(animation_state')
                              /\ animation_state' = None ]_vars

\* A tick has completed a flight whose advanced position overshot the
\* destination.
C3_Witness ==
    /\ Resting /\ h_op = "tick" /\ h_result
    /\ Positive(duration_ms)
    /\ FNe(h_flight.origin, h_flight.destination)
    /\ h_flight.interrupts = 0
    /\ FEq(position, h_flight.destination)
    /\ FGt(F(h_time), duration_ms)

\* C4: tick returns true on every call made in flight, the completing call
\* included; at rest it returns false and changes no field.
C4_TickResult ==
    [][ TickStep
        => IF InFlight
           THEN h_result' = TRUE
           ELSE /\ h_result' = FALSE
                /\ UNCHANGED << position, duration_ms, timing, animation_state >>
      ]_vars

\* A tick has just completed a flight and returned true.
C4_Witness ==
    /\ h_op = "tick" /\ h_result /\ Resting
    /\ FNe(h_flight.origin, h_flight.destination)

\* C5: with duration 0 a transition from rest does not move position, and the
\* next tick, whatever time has passed and whether or not the flight was
\* retargeted, puts position at the target, returns true and leaves the
\* animation at rest.
C5_InstantCompletion ==
    [][ FEq(duration_ms, F(0))
        => /\ (Resting /\ TransitionStep)
                => (FEq(position', position) /\ InFlight')
           /\ (InFlight /\ TickStep)
                => /\ FEq(position', Flight.destination)
                   /\ h_result' = TRUE
                   /\ Resting' ]_vars

\* With duration 0 a retargeted flight has been completed by a tick at the
\* timestamp of its transition.
C5_Witness ==
    /\ FEq(duration_ms, F(0)) /\ Resting /\ h_op = "tick" /\ h_result
    /\ h_flight.interrupts >= 1
    /\ h_time = h_flight.interrupt_time
    /\ FNe(position, h_flight.origin)

\* The destination lies at or above the origin: the direction of travel.
Upward(origin, destination) == FGe(destination, origin)

\* p has reached or crossed the destination in the direction of travel.
Crossed(p, origin, destination) ==
    IF Upward(origin, destination) THEN FGe(p, destination)
    ELSE FLe(p, destination)

\* p moved by the distance dist from the origin towards the destination.
Towards(p, dist, origin, destination) ==
    IF Upward(origin, destination) THEN FAdd(p, dist) ELSE FSub(p, dist)

\* C6: in a flight started from rest and not retargeted, with duration d > 0,
\* a tick at total elapsed time e < d since the transition leaves
\* position == origin + (e / d) * (destination - origin) whatever the timing
\* curve, and a tick at e >= d completes the flight at the destination.
C6_LinearTimeStep ==
    [][ (InFlight /\ TickStep /\ ~Interrupted /\ Positive(duration_ms))
        => LET e == F(h_time' - Flight.started_time)
               range == FSub(Flight.destination, Flight.origin)
               expected == FAdd(Flight.origin, FMul(FDiv(e, duration_ms), range))
           IN  IF FLt(e, duration_ms)
               THEN /\ FEq(position', expected)
                    /\ ~IsZero(range) => InFlight'
               ELSE /\ Resting'
                    /\ FEq(position', Flight.destination) ]_vars

\* A second tick of an unretargeted flight under a non-linear curve has left
\* it in flight, strictly between origin and destination.
C6_Witness ==
    /\ InFlight /\ h_op = "tick" /\ ~Interrupted
    /\ timing = "EaseInOutQuint"
    /\ FNe(position, Flight.origin)
    /\ Flight.last_tick_time > Flight.started_time
    /\ FLt(F(Flight.last_tick_time - Flight.started_time), duration_ms)

\* C7 (as claimed): a tick ends the flight exactly when the position it
\* advanced has reached or crossed the destination in the direction of travel;
\* no flight ends while position is strictly short of the destination.
C7_EndsExactlyWhenCrossed ==
    [][ (InFlight /\ TickStep)
        => LET elapsed == elapsed_since(h_time', Flight.last_tick_time)
               delta == position_delta(Flight, elapsed, duration_ms)
               advanced == advanced_position(position, delta, duration_ms)
           IN  Resting' <=> Crossed(advanced, Flight.origin, Flight.destination)
      ]_vars

\* C7 (amended): with duration_ms > 0 a tick ends the flight exactly when the
\* advanced position has reached or crossed the destination in the direction
\* of travel, for increasing and for decreasing targets alike.
C7_EndsExactlyWhenCrossedTimed ==
    [][ (InFlight /\ TickStep /\ Positive(duration_ms))
        => LET elapsed == elapsed_since(h_time', Flight.last_tick_time)
               advanced == FAdd(position,
                                position_delta(Flight, elapsed, duration_ms))
           IN  Resting' <=> Crossed(advanced, Flight.origin, Flight.destination)
      ]_vars

\* A tick has left a flight towards a lower target in flight, strictly short
\* of its destination.
C7_Witness ==
    /\ InFlight /\ h_op = "tick" /\ Positive(duration_ms)
    /\ FLt(Flight.destination, Flight.origin)
    /\ FLt(position, Flight.origin)
    /\ FGt(position, Flight.destination)

\* C8: after an interrupt every tick advances position by elapsed * s towards
\* the new destination, s = |old_destination - old_origin| / duration being the
\* speed of the interrupted flight, and the flight completes exactly at the
\* new target once the time since the interrupt reaches
\* |target - position_at_interrupt| / s, and not before the time since the
\* last tick that preceded the interrupt reaches it.
C8_InterruptKeepsSpeed ==
    [][ (Interrupted /\ TickStep /\ Positive(duration_ms))
        => LET s == FDiv(FAbs(FSub(h_flight.destination, h_flight.origin)),
                         duration_ms)
               elapsed == elapsed_since(h_time', Flight.last_tick_time)
               since == F(h_time' - h_flight.interrupt_time)
               run == F(h_time' - h_flight.interrupt_anchor)
               distance == FAbs(FSub(Flight.destination,
                                     h_flight.interrupt_position))
           IN  /\ InFlight' => FEq(position',
                                   Towards(position, FMul(elapsed, s),
                                           Flight.origin, Flight.destination))
               /\ Resting' => FEq(position', Flight.destination)
               /\ FGe(FMul(since, s), distance) => Resting'
               /\ Resting' => FGe(FMul(run, s), distance) ]_vars

\* A flight interrupted halfway and sent back to its start has arrived there
\* after another half of the duration.
C8_Witness ==
    /\ Resting /\ h_op = "tick" /\ Positive(duration_ms)
    /\ h_flight.interrupts = 1
    /\ FNe(h_flight.origin, h_flight.destination)
    /\ FEq(position, h_flight.origin)
    /\ FEq(FMul(F(2), FSub(h_flight.interrupt_raw, h_flight.origin)),
           FSub(h_flight.destination, h_flight.origin))
    /\ FEq(FMul(F(2), F(h_time - h_flight.interrupt_time)), duration_ms)

\* C9: within a flight only the first interrupting transition fixes
\* speed_at_interrupt: once set it is unchanged by every later transition and
\* tick of the flight; a flight started from rest has none.
C9_FirstInterruptFixesSpeed ==
    [][ /\ (InFlight /\ ~Interrupted /\ TransitionStep)
             => is_some(unwrap(animation_state').speed_at_interrupt)
        /\ (Interrupted /\ InFlight')
             => unwrap(animation_state').speed_at_interrupt
                    = Flight.speed_at_interrupt
        /\ (Resting /\ InFlight')
             => is_none(unwrap(animation_state').speed_at_interrupt) ]_vars

\* A second retarget has left the speed of the first one in place, although
\* the range it replaced would give another speed.
C9_Witness ==
    /\ Interrupted /\ h_op = "transition" /\ h_flight.interrupts = 2
    /\ Positive(duration_ms)
    /\ FEq(unwrap(Flight.speed_at_interrupt),
           FDiv(FAbs(FSub(h_flight.destination, h_flight.origin)), duration_ms))
    /\ FNe(h_flight.interrupt_position, h_flight.origin)
    /\ FNe(h_flight.interrupt_raw, h_flight.interrupt_position)

\* The rounding the model's division and multiplication by a range can leave.
Near(a, b, range) ==
    /\ a.cls = "fin" /\ b.cls = "fin"
    /\ LET diff == Units(a) - Units(b)
       IN  (IF diff < 0 THEN 0 - diff ELSE diff) * Unit <= range.mag + Unit

\* C10 (as claimed): after an interrupt timed_progress() bypasses the timing
\* curve: it equals the raw position.
C10_ShownIsRawAfterInterrupt ==
    Interrupted => Near(Shown, position, FSub(Flight.destination, Flight.origin))

\* C10 (amended): after an interrupt the raw position follows constant-velocity
\* motion at the interrupt speed for the rest of the flight, and
\* timed_progress() equals it under the identity curves Linear and Custom; the
\* other curves still shape the displayed value.
C10_RawIsLinearAfterInterrupt ==
    (Interrupted /\ Positive(duration_ms))
    => LET range == FSub(Flight.destination, Flight.origin)
           travelled == FMul(F(Flight.last_tick_time - h_flight.interrupt_anchor),
                             unwrap(Flight.speed_at_interrupt))
       IN  /\ FEq(Flight.origin, h_flight.interrupt_position)
           /\ FEq(position, Towards(Flight.origin, travelled,
                                    Flight.origin, Flight.destination))
           /\ timing \in {"Linear", "Custom"} => Near(Shown, position, range)

\* A tick has advanced a retargeted flight under a non-linear curve and left
\* it in flight.
C10_Witness ==
    /\ Interrupted /\ h_op = "tick" /\ Positive(duration_ms)
    /\ timing = "EaseIn"
    /\ FNe(position, Flight.origin)
    /\ Flight.last_tick_time > h_flight.interrupt_time

\* C11: timed_progress() is total.  At rest, a fresh AnimatedValue::new(v)
\* included, and in a flight whose destination equals its origin it returns the
\* raw position, so the zero range is never divided by; a fresh value is not
\* animating; and the value it returns is a number whenever position is one.
C11_TimedProgressTotal ==
    /\ (Resting \/ FEq(Flight.destination, Flight.origin)) => Shown = position
    /\ h_op = "new" => (~animating(animation_state) /\ Shown = position)
    /\ ~is_nan(position) => ~is_nan(Shown)

\* A flight of zero range is in progress under a curve that is not the
\* identity.
C11_Witness ==
    /\ InFlight /\ FEq(Flight.destination, Flight.origin)
    /\ timing = "EaseInOut" /\ Positive(duration_ms)
    /\ h_op = "transition"

\* The distance of p from the destination d.
Distance(p, d) == FAbs(FSub(d, p))

\* C13: with non-decreasing timestamps a tick of a flight never increases the
\* distance |destination - position|, moves position only in the direction
\* from origin to destination, and leaves origin and destination as they are:
\* the direction of motion changes only at an interrupting transition.
C13_MonotoneTowardsDestination ==
    [][ (InFlight /\ TickStep)
        => /\ FLe(Distance(position', Flight.destination),
                  Distance(position, Flight.destination))
           /\ IF Upward(Flight.origin, Flight.destination)
              THEN FGe(position', position)
              ELSE FLe(position', position)
           /\ InFlight' => /\ unwrap(animation_state').origin = Flight.origin
                           /\ unwrap(animation_state').destination
                                  = Flight.destination ]_vars

\* A tick has moved a retargeted flight downwards and left it in flight,
\* strictly between its origin and its destination.
C13_Witness ==
    /\ Interrupted /\ h_op = "tick" /\ Positive(duration_ms)
    /\ FLt(Flight.destination, Flight.origin)
    /\ FLt(position, Flight.origin)
    /\ FGt(position, Flight.destination)

\* C14: the engine is a two-state machine.  Every transition leaves the
\* animation in flight: from rest it starts a flight with no interrupt speed,
\* from a flight it stays in flight with the interrupt speed set.  A flight
\* ends only by a tick, which leaves position at the destination; a tick at
\* rest stays at rest; and a flight can be started again after one has ended.
C14_TwoStateMachine ==
    [][ /\ TransitionStep => InFlight'
        /\ (Resting /\ TransitionStep)
             => /\ ~Interrupted'
                /\ unwrap(animation_state').origin = position
        /\ (InFlight /\ TransitionStep) => Interrupted'
        /\ (InFlight /\ Resting')
             => (TickStep /\ FEq(position', Flight.destination))
        /\ (Resting /\ TickStep) => Resting' ]_vars

\* A flight that was started from rest and retargeted on its way has been
\* brought to rest by a tick, away from the target it started for.
C14_Witness ==
    /\ Resting /\ h_op = "tick" /\ h_result
    /\ h_flight.interrupts >= 1
    /\ Positive(duration_ms)
    /\ timing = "EaseOut"
    /\ FNe(h_flight.origin, h_flight.destination)
    /\ FNe(position, h_flight.destination)

\* C12: in every reachable state a destination is present if and only if a
\* start timestamp is present, and exactly then the animation reports that it
\* is animating: for the AnimatedValue in the tree of animated.rs, whose flight
\* record carries both, and for the Animated of checkbox.rs (to / started)
\* after any sequence of transition and redraw-update calls.
C12_DestinationIffStarted ==
    /\ tree = AnimatedTree
         => /\ animating(animation_state) <=> is_some(animation_state)
            /\ is_some(animation_state)
                 => {"destination", "started_time"} \subseteq DOMAIN Flight
    /\ tree = CheckboxTree
         => /\ is_some(animated.to) <=> is_some(animated.started)
            /\ Animated_animating(animated) <=> is_some(animated.started)

\* The redraw update that completes a transition of the Animated has just
\* cleared both its target and its start timestamp.
C12_Witness ==
    /\ tree = CheckboxTree /\ h_op = "on_event"
    /\ redraw_request = Some(NextFrame)
    /\ is_none(animated.to) /\ is_none(animated.started)
    /\ animated.duration > 0

\* A step in which a RedrawRequested event reaches the wrapper widget.
OnEventStep == h_op' = "on_event"

\* C19: in both Animating wrappers a RedrawRequested event that arrives while
\* the animation is in flight, the completing one included, asks the shell for
\* a redraw on the next frame; one that arrives while the animation is at rest
\* with no pending change of target asks for none and changes no state.
C19_RedrawWhileInFlight ==
    [][ OnEventStep
        => /\ tree = AnimatedTree
                => /\ InFlight => redraw_request' = Some(NextFrame)
                   /\ (Resting /\ FEq(position, animated_value))
                        => /\ redraw_request' = None
                           /\ UNCHANGED << position, duration_ms, timing,
                                           animation_state >>
           /\ tree = CheckboxTree
                => /\ Animated_animating(animated)
                        => redraw_request' = Some(NextFrame)
                   /\ ~Animated_animating(animated)
                        => /\ redraw_request' = None
                           /\ animated' = animated ]_vars

\* The event on which the animation of animated.rs arrived at its value has
\* asked for a redraw.
C19_Witness ==
    /\ tree = AnimatedTree /\ h_op = "on_event"
    /\ Resting /\ redraw_request = Some(NextFrame)
    /\ Positive(duration_ms) /\ h_time > 0
    /\ FEq(position, animated_value)

\* C20: when transition(target, now) is at once followed by tick(now), as in
\* Animating::on_event of animated.rs, the tick acts on the state the
\* transition produced.  For an interrupt the speed and the re-anchored origin
\* come from the flight as it was before the event, and position advances from
\* that origin; for a flight started from rest with duration > 0 and a target
\* other than position the tick sees no elapsed time: position is unchanged
\* and the animation is in flight.
C20_TransitionThenTick ==
    [][ (OnEventStep /\ tree = AnimatedTree)
        => /\ (Resting /\ FNe(position, animated_value)
                       /\ Positive(duration_ms))
                => /\ InFlight'
                   /\ position' = position
                   /\ animation_state'
                          = Some(new_flight(position, animated_value, h_time'))
           /\ (InFlight /\ FNe(Flight.destination, animated_value))
                => LET speed == IF is_some(Flight.speed_at_interrupt)
                                THEN unwrap(Flight.speed_at_interrupt)
                                ELSE FAbs(FDiv(FSub(Flight.destination,
                                                    Flight.origin),
                                               duration_ms))
                       origin == Shown
                       elapsed == F(h_time' - Flight.last_tick_time)
                   IN  IF InFlight'
                       THEN /\ unwrap(animation_state').speed_at_interrupt
                                   = Some(speed)
                            /\ FEq(unwrap(animation_state').origin, origin)
                            /\ FEq(unwrap(animation_state').destination,
                                   animated_value)
                            /\ FEq(position',
                                   Towards(origin, FMul(elapsed, speed),
                                           origin, animated_value))
                       ELSE FEq(position', animated_value) ]_vars

\* An event has retargeted a flight whose eased value differed from its raw
\* position and advanced it in the same step, leaving it in flight.
C20_Witness ==
    /\ tree = AnimatedTree /\ h_op = "on_event"
    /\ Interrupted /\ Positive(duration_ms)
    /\ FEq(Flight.destination, animated_value)
    /\ FNe(position, Flight.origin)
    /\ Flight.last_tick_time = h_time
    /\ timing = "EaseOutQuint"

\* C18 (as claimed): two copies of an animation that start in the same state
\* and receive the same calls with the same arguments are in the same state
\* and return the same values, whichever of the two animations the tree holds.
C18_SameCallsSameState ==
    /\ tree = AnimatedTree
         => /\ twin = Self
            /\ \A now \in Times :
                   AnimatedValue_tick_returns(twin, now)
                       = AnimatedValue_tick_returns(Self, now)
    /\ tree = CheckboxTree
         => /\ twin = animated
            /\ \A now \in Times :
                   on_redraw_request_update_returns(twin, now)
                       = on_redraw_request_update_returns(animated, now)

\* The arguments and the result of the blend that was made.
Blended == is_some(blend_output)
BlendSelf == blend_input.self
BlendOther == blend_input.other
BlendRatio == blend_input.ratio
BlendResult == unwrap(blend_output)

\* C15 (as claimed): blending with ratio 0 returns the first appearance and
\* blending with ratio 1 returns the second, in every field, also when an
\* optional field is present on one side only.
C15_EndPointsInEveryField ==
    Blended => /\ FEq(BlendRatio, F(0)) => BlendResult = BlendSelf
               /\ FEq(BlendRatio, F(1)) => BlendResult = BlendOther

\* C15 (amended): blending with ratio 1 returns the second appearance in every
\* field but border_radius; blending with ratio 0 returns the first in icon
\* colour, border width and border colour, in the background when both
\* backgrounds are colours and in the text colour when both are present.
\* border_radius is the first appearance's at every ratio; a background that
\* is not a colour on both sides and a text colour absent on either side are
\* the second appearance's at every ratio.
C15_EndPointsOfBlendedFields ==
    Blended
    => LET a == BlendSelf
           b == BlendOther
           out == BlendResult
           both_colors == a.background.kind = "Color"
                          /\ b.background.kind = "Color"
           both_present == is_some(a.text_color) /\ is_some(b.text_color)
       IN  /\ FEq(BlendRatio, F(1))
                => /\ out.background = b.background
                   /\ out.icon_color = b.icon_color
                   /\ out.border_width = b.border_width
                   /\ out.border_color = b.border_color
                   /\ out.text_color = b.text_color
           /\ FEq(BlendRatio, F(0))
                => /\ both_colors => out.background = a.background
                   /\ out.icon_color = a.icon_color
                   /\ out.border_width = a.border_width
                   /\ out.border_color = a.border_color
                   /\ both_present => out.text_color = a.text_color
           /\ out.border_radius = a.border_radius
           /\ ~both_colors => out.background = b.background
           /\ ~both_present => out.text_color = b.text_color

\* Two appearances that differ in every field, the first with a text colour
\* and the second without, have been blended with ratio 0.
C15_Witness ==
    /\ Blended /\ FEq(BlendRatio, F(0))
    /\ BlendSelf.background = Background_Color(White)
    /\ BlendOther.background = Background_Gradient
    /\ BlendSelf.icon_color # BlendOther.icon_color
    /\ BlendSelf.border_radius # BlendOther.border_radius
    /\ BlendSelf.border_width # BlendOther.border_width
    /\ is_some(BlendSelf.text_color) /\ is_none(BlendOther.text_color)

\* x lies between lo and hi, whichever is the larger.
Between(x, lo, hi) ==
    \/ FLe(lo, x) /\ FLe(x, hi)
    \/ FLe(hi, x) /\ FLe(x, lo)

\* C16: blending two optional fields interpolates the contained values when
\* both are present, and otherwise returns the second operand unchanged, for
\* every ratio: (Some a, None) gives None, (None, Some b) gives Some b and
\* (None, None) gives None.
C16_OptionBlend ==
    Blended
    => LET a == BlendSelf.text_color
           b == BlendOther.text_color
           out == BlendResult.text_color
       IN  /\ (is_some(a) /\ is_some(b))
                => /\ is_some(out)
                   /\ \A channel \in {"r", "g", "b", "a"} :
                          Between(unwrap(out)[channel], unwrap(a)[channel],
                                  unwrap(b)[channel])
                   /\ FEq(BlendRatio, F(0)) => out = a
                   /\ FEq(BlendRatio, F(1)) => out = b
                   /\ (unwrap(a) # unwrap(b) /\ FGt(BlendRatio, F(0))
                                             /\ FLt(BlendRatio, F(1)))
                        => (out # a /\ out # b)
           /\ (is_some(a) /\ is_none(b)) => out = None
           /\ (is_none(a) /\ is_some(b)) => out = b
           /\ (is_none(a) /\ is_none(b)) => out = None

\* A present text colour has been blended with an absent one at a ratio
\* strictly between 0 and 1.
C16_Witness ==
    /\ Blended
    /\ BlendSelf.text_color = Some(White) /\ BlendOther.text_color = None
    /\ FGt(BlendRatio, F(0)) /\ FLt(BlendRatio, F(1))
    /\ BlendResult.text_color = None

\* C17 (as claimed): the appearance drawn for the checkbox is the result of
\* two blends in a fixed order: off -> on by the eased ratio of the checked
\* axis, then that result towards its hovered variant by the eased ratio of
\* the hovered axis, which enters as a ratio and not as a choice of styles.
C17_DrawBlendsBothAxes ==
    is_some(draw_output)
    => LET shown == interpolated_value(animated)
           by_checked == Appearance_interpolated(Theme_active(FALSE),
                                                 Theme_active(TRUE),
                                                 shown.checked_amount)
           by_checked_hovered == Appearance_interpolated(Theme_hovered(FALSE),
                                                         Theme_hovered(TRUE),
                                                         shown.checked_amount)
       IN  unwrap(draw_output)
               = Appearance_interpolated(by_checked, by_checked_hovered,
                                         shown.hovered_amount)

\* C21: an interrupting transition leaves started_time and last_tick_time of
\* the flight as they are and never changes duration_ms or timing, so the tick
\* that follows it measures its elapsed time from the last tick before the
\* interrupt, not from the timestamp of the interrupt.
C21_InterruptKeepsTimestamps ==
    [][ /\ TransitionStep => (duration_ms' = duration_ms /\ timing' = timing)
        /\ (InFlight /\ TransitionStep)
             => /\ unwrap(animation_state').started_time = Flight.started_time
                /\ unwrap(animation_state').last_tick_time
                       = Flight.last_tick_time
        /\ (Interrupted /\ h_op = "transition" /\ TickStep
            /\ Positive(duration_ms))
             => LET since_tick == F(h_time' - h_flight.interrupt_anchor)
                    step == FMul(since_tick, unwrap(Flight.speed_at_interrupt))
                    advanced == Towards(position, step,
                                        Flight.origin, Flight.destination)
                IN  /\ Flight.last_tick_time = h_flight.interrupt_anchor
                    /\ IF InFlight' THEN FEq(position', advanced)
                       ELSE Crossed(advanced, Flight.origin, Flight.destination)
      ]_vars

\* A flight was ticked, retargeted at a later timestamp to a target away from
\* its position, and a tick at the very timestamp of the retarget has moved it
\* by the time that had passed since the earlier tick.
C21_Witness ==
    /\ h_op = "tick" /\ h_result /\ Positive(duration_ms)
    /\ h_flight.interrupts = 1
    /\ h_flight.interrupt_time > h_flight.interrupt_anchor
    /\ h_time = h_flight.interrupt_time
    /\ FNe(position, h_flight.interrupt_position)

\* C22 (as claimed): no in-flight state with duration_ms > 0 stays in flight
\* forever when tick keeps being called with advancing timestamps and no
\* transition is issued.  tick reads the timestamp only through the elapsed
\* time, so a flight that a tick with positive elapsed time leaves in flight
\* with position, origin, destination and speed as they were is left so by
\* every later tick: no tick is to do that.
C22_NoStuckFlight ==
    [][ (InFlight /\ TickStep /\ Positive(duration_ms)
         /\ h_time' > Flight.last_tick_time)
        => ~ /\ InFlight'
             /\ position' = position
             /\ unwrap(animation_state')
                    = [ Flight EXCEPT !.last_tick_time = h_time' ] ]_vars

\* The curves that map 0 to 0 and every completion short of 1 into [0, 1]: the
\* completions timed_progress can be handed in flight, where position is short
\* of the destination.
UnitCurves ==
    { curve \in Timings :
        /\ IsZero(Timing_timing(curve, F(0)))
        /\ \A k \in 0..(Unit - 1) :
               Between(Timing_timing(curve, Fin(FALSE, k)), F(0), F(1)) }

UnitCurve(curve) == curve \in UnitCurves

\* C23: in every in-flight state position lies between origin and destination
\* and is at the destination only when the origin is, so the completion
\* (position - origin) / (destination - origin) that timed_progress hands to the
\* timing curve lies in [0, 1].
C23_CompletionInUnitRange ==
    (InFlight /\ UnitCurve(timing))
    => /\ Between(position, Flight.origin, Flight.destination)
       /\ FEq(position, Flight.destination)
              => FEq(Flight.origin, Flight.destination)
       /\ FNe(Flight.destination, Flight.origin)
              => Between(FDiv(FSub(position, Flight.origin),
                              FSub(Flight.destination, Flight.origin)),
                         F(0), F(1))

\* A flight retargeted at an eased position that differs from the raw one has
\* been ticked and is still in flight, away from its new origin.
C23_Witness ==
    /\ Interrupted /\ h_op = "tick" /\ Positive(duration_ms)
    /\ timing = "EaseOut" /\ UnitCurve(timing)
    /\ FNe(h_flight.interrupt_raw, h_flight.interrupt_position)
    /\ FNe(position, Flight.origin)
    /\ FNe(Flight.origin, h_flight.origin)

\* C24: at rest position is the target of the most recent transition, or the
\* initial value if there was none.  No call made at rest moves position (a
\* transition from rest only starts the flight), and the tick that ends a
\* flight leaves position at the target of the latest transition, not at a
\* target that a later transition replaced.
C24_RestsAtLatestTarget ==
    [][ /\ Resting => FEq(position', position)
        /\ (InFlight /\ Resting') => FEq(position', h_flight.target)
        /\ InFlight' => FEq(unwrap(animation_state').destination,
                            h_flight'.target) ]_vars

\* A flight that was retargeted away from its first target, after it had
\* moved, has come to rest on the later target.
C24_Witness ==
    /\ Resting /\ h_op = "tick" /\ h_result /\ Positive(duration_ms)
    /\ h_flight.interrupts >= 1
    /\ FNe(h_flight.target, h_flight.destination)
    /\ FNe(h_flight.interrupt_raw, h_flight.origin)
    /\ FEq(position, h_flight.target)

\* C25: ticking does not depend on the granularity of the frames.  For a
\* flight with no transition in between, a tick at t1 followed by a tick at
\* t2 >= t1 leaves the position and the resting / in-flight status that the
\* single tick at t2 leaves, whether the flight was retargeted or not.
C25_TickGranularity ==
    [][ (InFlight /\ TickStep)
        => \A t2 \in Times :
               t2 >= h_time'
               => LET twice == AnimatedValue_tick(Self', t2)
                      once == AnimatedValue_tick(Self, t2)
                  IN  /\ FEq(twice.position, once.position)
                      /\ animating(twice.animation_state)
                             = animating(once.animation_state) ]_vars

\* A tick has moved a retargeted flight part of its way and left it in
\* flight; a later tick, or the single tick in place of both, would end it.
C25_Witness ==
    /\ Interrupted /\ h_op = "tick" /\ Positive(duration_ms)
    /\ Flight.last_tick_time > h_flight.interrupt_anchor
    /\ FNe(position, Flight.origin)
    /\ \E t2 \in Times :
           /\ t2 > h_time
           /\ ~animating(AnimatedValue_tick(Self, t2).animation_state)

\* The tick about to be made is handed a timestamp earlier than the one of the
\* previous tick of the flight (or of its start).
BackwardTick == InFlight /\ h_op' = "stale tick"

\* No tick leaves position outside the range of origin and destination, or
\* moves it away from the destination and leaves the flight in flight.
StaysInRange ==
    /\ Between(position', Flight.origin, Flight.destination)
    /\ InFlight' => FLe(Distance(position', Flight.destination),
                        Distance(position, Flight.destination))

\* C26 (as claimed): a tick with a timestamp earlier than the previous tick's
\* never leaves position out of range or further from the destination in
\* flight: with duration_ms > 0 and destination /= origin it ends the flight
\* at once with position at the destination.
C26_BackwardTickEndsFlight ==
    [][ BackwardTick
        => /\ StaysInRange
           /\ (Positive(duration_ms) /\ FNe(Flight.destination, Flight.origin))
                => (Resting' /\ FEq(position', Flight.destination)) ]_vars

\* C26 (amended): such a tick never leaves position out of range or further
\* from the destination in flight.  With duration_ms > 0 and destination /=
\* origin it ends the flight at once at the destination when the clock is f32,
\* where the elapsed time is negative; when the clock is Instant the elapsed
\* time is zero, and the tick leaves position where it was and the flight in
\* flight, with last_tick_time moved back to the timestamp.
C26_BackwardTickByClock ==
    [][ BackwardTick
        => /\ StaysInRange
           /\ (Positive(duration_ms) /\ FNe(Flight.destination, Flight.origin))
                => IF clock = F32Clock
                   THEN Resting' /\ FEq(position', Flight.destination)
                   ELSE /\ InFlight'
                        /\ position' = position
                        /\ unwrap(animation_state')
                               = [ Flight EXCEPT !.last_tick_time = h_time' ]
      ]_vars

\* On the Instant clock a tick earlier than the one before has left a flight
\* that had moved part of its way where it was, in flight.
C26_Witness ==
    /\ clock = InstantClock /\ InFlight /\ h_op = "stale tick" /\ h_result
    /\ Positive(duration_ms)
    /\ FNe(position, Flight.origin)
    /\ FNe(position, Flight.destination)
    /\ Flight.last_tick_time = h_time
    /\ Flight.started_time <= h_time

\* C27: the Animating widget of animated.rs hands its value to transition on
\* a redraw event only when the value differs from the destination of the
\* flight in progress, or from position at rest.  At rest on the value the
\* event changes nothing and asks for no redraw; in flight towards the value
\* the event only ticks; and every flight the widget starts from rest has an
\* origin that differs from its destination.
C27_WidgetGuardsTransition ==
    [][ (tree = AnimatedTree /\ OnEventStep)
        => /\ (Resting /\ FEq(position, animated_value))
                => /\ UNCHANGED << position, animation_state >>
                   /\ redraw_request' = None
           /\ (InFlight /\ FEq(Flight.destination, animated_value))
                => Self' = AnimatedValue_tick(Self, h_time')
           /\ (InFlight' /\ ~Interrupted')
                => FNe(unwrap(animation_state').origin,
                       unwrap(animation_state').destination) ]_vars

\* A second redraw event has reached a flight that is on its way to the
\* widget's value: it was ticked and not retargeted.
C27_Witness ==
    /\ tree = AnimatedTree /\ h_op = "on_event"
    /\ InFlight /\ ~Interrupted
    /\ FEq(Flight.destination, animated_value)
    /\ Flight.last_tick_time > Flight.started_time
    /\ FNe(position, Flight.origin)
    /\ redraw_request = Some(NextFrame)

\* C28: blending never interpolates the border radius.  For every ratio the
\* border_radius of the result is that of the first operand, whatever the
\* radius of the second operand is.
C28_BorderRadiusNotBlended ==
    Blended => BlendResult.border_radius = BlendSelf.border_radius

\* Two appearances with different radii have been blended with ratio 1, where
\* every blended field is the second operand's.
C28_Witness ==
    /\ Blended
    /\ BlendSelf.border_radius # BlendOther.border_radius
    /\ FEq(BlendRatio, F(1))
    /\ BlendSelf.border_width # BlendOther.border_width
    /\ BlendResult.border_width = BlendOther.border_width

\* Two checkbox states show the same amounts.
SameAmounts(a, b) ==
    /\ FEq(a.checked_amount, b.checked_amount)
    /\ FEq(a.hovered_amount, b.hovered_amount)

\* C29 (as claimed): Animated::transition called while a transition is in
\* flight snapshots the displayed state as the new origin: interpolated_value()
\* right after the call equals interpolated_value() right before it, for every
\* linear_progress in [0, 1) and every timing curve.
C29_RetargetKeepsInterpolatedValue ==
    [][ (tree = CheckboxTree /\ h_op' = "transition"
         /\ Animated_animating(animated))
        => SameAmounts(interpolated_value(animated'),
                       interpolated_value(animated)) ]_vars

\* The linear progress a redraw at now accumulates on a started transition.
ProgressAt(self, now) ==
    FAdd(self.linear_progress,
         FDiv(millis_between(now, unwrap_or(self.last, unwrap(self.started))),
              F(self.duration)))

\* C30 (as claimed): on_redraw_request_update returns true exactly when a
\* transition is started.  When the accumulated linear_progress reaches 1, or
\* is NaN or infinite because the duration is zero, the call completes the
\* transition: from becomes the target, linear_progress is 0, and started, to
\* and last are all None; so at rest linear_progress is 0 and
\* interpolated_value() equals real_value().
C30_CompletionClearsAll ==
    [][ (tree = CheckboxTree /\ OnEventStep)
        => /\ (redraw_request' = Some(NextFrame)) <=> is_some(animated.started)
           /\ (is_some(animated.started)
               /\ (\/ FGe(ProgressAt(animated, h_time'), F(1))
                   \/ is_nan(ProgressAt(animated, h_time'))))
                => /\ animated'.from = real_value(animated)
                   /\ IsZero(animated'.linear_progress)
                   /\ is_none(animated'.started)
                   /\ is_none(animated'.to)
                   /\ is_none(animated'.last)
           /\ ~Animated_animating(animated')
                => /\ IsZero(animated'.linear_progress)
                   /\ interpolated_value(animated') = real_value(animated')
      ]_vars

\* The checked state the animation is heading for: to while a transition is
\* in flight, else from.
TargetChecked(self_state) == FEq(real_value(self_state).checked_amount, F(1))

\* The last event was a left-click or a finger press over the bounds.
PressedOver ==
    /\ is_some(handled)
    /\ unwrap(handled).event \in {LeftPressed, FingerPressed}
    /\ unwrap(handled).mouse_over

\* C31: a left-click or finger press over the checkbox publishes on_toggle
\* with the negation of the target checked state (to if a transition is in
\* flight, else from), requests a redraw and is Captured; a press outside the
\* bounds or any other event publishes nothing and is Ignored.  The target's
\* checked amount is 0 or 1, so the toggle is relative to the target and not to
\* the partially animated value on display.
C31_PressTogglesTarget ==
    is_some(handled) =>
        /\ real_value(animated).checked_amount \in {F(0), F(1)}
        /\ PressedOver
            => /\ unwrap(handled).did.publish = Some(~TargetChecked(animated))
               /\ unwrap(handled).did.redraw = Some(NextFrame)
               /\ redraw_request = Some(NextFrame)
               /\ unwrap(handled).did.status = Captured
        /\ ~PressedOver
            => /\ unwrap(handled).did.publish = None
               /\ unwrap(handled).did.redraw = None
               /\ unwrap(handled).did.status = Ignored

\* A press over the bounds while the box is half-way to checked: the value on
\* display is not checked, the target is, and the press publishes unchecked.
C31_Witness ==
    /\ PressedOver
    /\ Animated_animating(animated)
    /\ FGt(interpolated_value(animated).checked_amount, F(0))
    /\ FLt(interpolated_value(animated).checked_amount, F(1))
    /\ TargetChecked(animated)
    /\ unwrap(handled).did.publish = Some(FALSE)
    /\ unwrap(handled).did.status = Captured

====
